---- MODULE Spec2Model ----
(***************************************************************************)
(* A model of zookeeper_cli.py: one run of the tool is a process that      *)
(* parses its arguments, installs its signal handlers, connects to the     *)
(* coordination service, runs one of eight actions and exits.  The         *)
(* namespace of the service outlives the runs; other clients of the        *)
(* service may delete nodes at any moment.                                 *)
(*                                                                         *)
(* A Python str is a sequence of one-character strings.  A JSON text is    *)
(* abstracted to the sequence of the keys of its top-level object, in the  *)
(* order written, and a tag for its layout.                                *)
(***************************************************************************)
EXTENDS Integers, Sequences, FiniteSets, TLC

\* ------------------------------------------------------------------ bounds

\* Runs of the tool in one behaviour.
MaxRuns == 2
\* Deletions by other clients of the service in one behaviour.
MaxExternal == 1

\* ------------------------------------------------------------------ strings

Whitespace == {" ", "\n"}

RECURSIVE rstrip(_)
rstrip(s) ==
    IF s # <<>> /\ s[Len(s)] \in Whitespace
    THEN rstrip(SubSeq(s, 1, Len(s) - 1))
    ELSE s

startswith(s, c) == s # <<>> /\ s[1] = c

\* Index of the first occurrence of the character c in s, 0 when there is none.
FirstIndex(s, c) ==
    IF \E i \in 1..Len(s) : s[i] = c
    THEN CHOOSE i \in 1..Len(s) : s[i] = c /\ \A j \in 1..(i - 1) : s[j] # c
    ELSE 0

\* Index of the last occurrence of the character c in s, 0 when there is none.
LastIndex(s, c) ==
    IF \E i \in 1..Len(s) : s[i] = c
    THEN CHOOSE i \in 1..Len(s) : s[i] = c /\ \A j \in (i + 1)..Len(s) : s[j] # c
    ELSE 0

\* str.split(c): every piece between two occurrences of c.
RECURSIVE split(_, _)
split(s, c) ==
    LET i == FirstIndex(s, c)
    IN  IF i = 0 THEN <<s>>
        ELSE <<SubSeq(s, 1, i - 1)>> \o split(SubSeq(s, i + 1, Len(s)), c)

\* str.split(c, 1): the line is cut at the first occurrence of c only.
split_first(s, c) ==
    LET i == FirstIndex(s, c)
    IN  IF i = 0 THEN <<s>>
        ELSE <<SubSeq(s, 1, i - 1), SubSeq(s, i + 1, Len(s))>>

\* os.path.basename: what follows the last slash.
basename(p) == SubSeq(p, LastIndex(p, "/") + 1, Len(p))

\* The non-empty components of a slash-separated path: what the service
\* client (and the file system) make of "//a" or "/a/".
Components(p) == SelectSeq(split(p, "/"), LAMBDA x : x # <<>>)

\* sub in s, for two strings.
Contains(sub, s) ==
    \E i \in 0..(Len(s) - Len(sub)) : SubSeq(s, i + 1, i + Len(sub)) = sub

Front(s) == SubSeq(s, 1, Len(s) - 1)

\* ------------------------------------------------------------------ JSON

\* None, also the value of an option that was not given.
None == [valid |-> FALSE, keys |-> <<>>, style |-> "none", enc |-> "none"]

\* A JSON text as written by hand: an object with these keys, in this order.
RawJson(keys) == [valid |-> TRUE, keys |-> keys, style |-> "raw", enc |-> "str"]

\* A text that json.loads rejects.
BadJson == [valid |-> FALSE, keys |-> <<>>, style |-> "raw", enc |-> "str"]

RECURSIVE SortedSeq(_)
SortedSeq(S) ==
    IF S = {} THEN <<>>
    ELSE LET m == CHOOSE x \in S : \A y \in S : x <= y
         IN  <<m>> \o SortedSeq(S \ {m})

\* json.loads: the dict of the object (a repeated key is kept once).
loads(j) == {j.keys[i] : i \in 1..Len(j.keys)}

\* json.dumps(sort_keys=True, indent=4, separators=(',', ': ')).
dumps(d) == [valid |-> TRUE, keys |-> SortedSeq(d), style |-> "canon", enc |-> "str"]

\* check_json raises ValueError when json.loads does.
check_json_raises(j) == ~j.valid

\* check_json returning the text it was given, not the text it formats.
check_json_unformatted(j) == j

check_json(j) == dumps(loads(j))

\* str.encode(): the same text as bytes.
encode(j) == [j EXCEPT !.enc = "bytes"]

\* read_json_from_file: the text of the file (trailing white space removed,
\* which the JSON parser ignores anyway), canonicalized, as bytes.
read_json_raises(text) == check_json_raises(text)

read_json_from_file(text) == encode(check_json(text))

\* ------------------------------------------------------------------ files

\* Single-character names keep the strings short: directory m holds the
\* mapping files 1..6 and the payload files x, y, z and c:x; m/s holds x and y.
\* A comment line and two entries; the name of the first source holds a colon.
MapGood == << <<"#", "c", "\n">>,
              <<"/", "a", ":", "c", ":", "x", "\n">>,
              <<"/", "a", "/", "b", ":", "y", "\n">> >>

\* The second entry names a file that does not exist.
MapMissing == << <<"/", "a", ":", "x", "\n">>,
                 <<"/", "b", ":", "q", "\n">> >>

\* The second entry names a file of a subdirectory.
MapSubdir == << <<"/", "a", ":", "x", "\n">>,
                <<"/", "b", ":", "s", "/", "y", "\n">> >>

\* The first entry names a file that is not JSON.
MapBadJson == << <<"/", "a", ":", "z", "\n">>,
                 <<"/", "b", ":", "x", "\n">> >>

\* A line without a colon.
MapMalformed == << <<"/", "a", "\n">> >>

\* The first entry names a file that does not exist, the second one that does.
MapMissingFirst == << <<"/", "a", ":", "q", "\n">>,
                      <<"/", "b", ":", "x", "\n">> >>

D(name) == <<name>>

\* The file system: absolute path (as components) -> contents.  A payload
\* file holds a JSON text, a mapping file holds lines.
\* Read as lines, a payload file is one line of JSON.
JsonFile(j) == [kind |-> "json", json |-> j,
                lines |-> << <<"{", "k", ":", "v", "}", "\n">> >>]
LinesFile(l) == [kind |-> "lines", json |-> BadJson, lines |-> l]

Files ==
    ( << D("m"), D("1") >> :> LinesFile(MapGood) ) @@
    ( << D("m"), D("2") >> :> LinesFile(MapMissing) ) @@
    ( << D("m"), D("3") >> :> LinesFile(MapSubdir) ) @@
    ( << D("m"), D("4") >> :> LinesFile(MapBadJson) ) @@
    ( << D("m"), D("5") >> :> LinesFile(MapMalformed) ) @@
    ( << D("m"), D("6") >> :> LinesFile(MapMissingFirst) ) @@
    ( << D("m"), <<"c", ":", "x">> >> :> JsonFile(RawJson(<<2, 1>>)) ) @@
    ( << D("m"), D("x") >> :> JsonFile(RawJson(<<2, 1>>)) ) @@
    ( << D("m"), D("y") >> :> JsonFile(RawJson(<<1>>)) ) @@
    ( << D("m"), D("z") >> :> JsonFile(BadJson) ) @@
    ( << D("m"), D("s"), D("x") >> :> JsonFile(RawJson(<<2, 2>>)) ) @@
    ( << D("m"), D("s"), D("y") >> :> JsonFile(RawJson(<<1, 1>>)) )

\* The file a path names when the process is in directory dir.
Resolve(dir, f) == IF startswith(f, "/") THEN Components(f) ELSE dir \o Components(f)

\* os.access(f, R_OK)
access(dir, f) == Resolve(dir, f) \in DOMAIN Files

\* os.path.dirname(os.path.abspath(f))
dirname_abspath(dir, f) == Front(Resolve(dir, f))

\* check_file: whether the file is refused, and the directory the process is
\* in afterwards (check_file changes into the directory of the file).
check_file_fails(dir, f) == ~access(dir, f)

check_file_chdir(dir, f) == dirname_abspath(dir, f)

\* ------------------------------------------------------------------ namespace

\* The paths of the namespace, each the sequence of its names; <<>> is the root.
NodePaths ==
    { <<>>,
      << D("a") >>,
      << D("b") >>,
      << D("a"), D("b") >>,
      << D("a"), D("b"), D("a") >> }

\* The orders in which the service may list the children of a node.
ChildOrders == { << D("a"), D("b") >>, << D("b"), D("a") >> }

\* The payload slot of a path that does not exist.
NoNode == [valid |-> FALSE, keys |-> <<>>, style |-> "absent", enc |-> "none"]

\* b"": the payload of a node made by ensure_path, or set to None.
EmptyData == [valid |-> FALSE, keys |-> <<>>, style |-> "raw", enc |-> "bytes"]

IsPrefix(q, n) == Len(q) <= Len(n) /\ SubSeq(n, 1, Len(q)) = q

\* zk.exists(path)
zk_exists(d, p) == Components(p) \in NodePaths /\ d[Components(p)] # NoNode

\* ensure_path creating every node of the path anew: an ancestor that
\* exists loses its payload.
zk_ensure_path_overwriting(d, p) ==
    [q \in NodePaths |->
        IF IsPrefix(q, Components(p)) /\ q # <<>> THEN EmptyData ELSE d[q]]

\* zk.ensure_path(path): the path and its missing ancestors are created.
zk_ensure_path(d, p) ==
    [q \in NodePaths |->
        IF d[q] = NoNode /\ IsPrefix(q, Components(p)) THEN EmptyData ELSE d[q]]

\* zk.set(path, value)
zk_set(d, p, v) == [d EXCEPT ![Components(p)] = IF v = None THEN EmptyData ELSE v]

\* zk.delete(path, recursive=True): the node and its descendants.
zk_delete(d, p) ==
    [q \in NodePaths |-> IF IsPrefix(Components(p), q) THEN NoNode ELSE d[q]]

\* zk.get_children(path) of an existing node: the names of its children, in
\* the order the service lists them.
zk_get_children(d, ord, p) ==
    SelectSeq(ord, LAMBDA c : /\ Append(Components(p), c) \in NodePaths
                              /\ d[Append(Components(p), c)] # NoNode)

\* The answers of the service to the ruok probe.
Responses == { <<"i", "m", "o", "k">>, <<"i", "m", "o", "k", "?">>, <<"n", "o">> }

\* ------------------------------------------------------------------ state

VARIABLES
    data,       \* the namespace: path -> payload, NoNode where absent
    order,      \* the order in which the service lists children
    runs,       \* runs of the tool started so far
    ext,        \* deletions by other clients so far
    pc,         \* where the current run is
    why,        \* how the run ended
    exitCode,   \* the exit status of the run, -1 while it runs
    zk,         \* the global zk: unset, created, connected, closed
    args,       \* the parsed arguments
    cwd,        \* the working directory of the process
    lines,      \* deploy: the lines of the mapping file
    idx,        \* deploy: the line the loop is at
    stack,      \* tree: the ZNode constructions still to run, next first
    out,        \* tree: the lines printed
    swallowed,  \* tree: a NoNodeError was taken by the except clause
    reported,   \* an error message was printed
    calls,      \* the create, set and delete calls issued by this run
    rejected,   \* deploy: the lines for which the service rejected a call
    snap,       \* the namespace when the run started
    ext0,       \* ext when the run started
    ret,        \* status: the answer to the ruok probe, <<>> before it
    last        \* deploy: the mapping of the deploy that ended just before this one

vars == << data, order, runs, ext, pc, why, exitCode, zk, args, cwd, lines, idx,
           stack, out, swallowed, reported, calls, rejected, snap, ext0, ret, last >>

env == << data, order, ext >>
deploy_locals == << lines, idx, rejected >>
tree_locals == << stack, out, swallowed >>

\* The command lines tried.  <<>> and None stand for an option not given.
Cmd(a, z, v, i) == [action |-> a, znode |-> z, values |-> v, input |-> i]

P_root == <<"/">>
P_a == <<"/", "a">>
P_b == <<"/", "b">>
P_ab == <<"/", "a", "/", "b">>

InDir(f) == <<"m", "/", f>>

CommandLines ==
    { Cmd(a, z, None, <<>>) : a \in {"get", "stats", "list"}, z \in {<<>>, P_b} }
    \cup { Cmd("del", z, None, <<>>) : z \in {<<>>, P_root, P_a, P_b} }
    \cup { Cmd("tree", z, None, <<>>) : z \in {<<>>, P_a, P_b} }
    \cup { Cmd("status", <<>>, None, <<>>) }
    \cup { Cmd("set", z, v, i) : z \in {<<>>, P_ab}, v \in {None, RawJson(<<2, 1>>)},
                                 i \in {<<>>, InDir("y"), InDir("z")} }
    \cup { Cmd("deploy", <<>>, None, i) :
              i \in {<<>>, InDir("1"), InDir("2"), InDir("3"), InDir("4"), InDir("5"),
                     InDir("6")} }
    \cup { Cmd("get", P_b, BadJson, <<>>),
           Cmd("deploy", <<>>, None, InDir("q")),
           Cmd("set", P_b, BadJson, InDir("q")) }

\* The directory the tool is started from, and the one of the --input files.
StartDir == <<>>
InputDir == << D("m") >>

NoArgs == [action |-> "none", znode |-> <<>>, values |-> None, input |-> <<>>,
           value |-> None]

Stopped == {"idle", "exited", "crashed"}

FullTree == [q \in NodePaths |-> EmptyData]
OnlyRoot == [q \in NodePaths |-> IF q = <<>> THEN EmptyData ELSE NoNode]

Init ==
    /\ data \in {FullTree, OnlyRoot}
    /\ order \in ChildOrders
    /\ runs = 0
    /\ ext = 0
    /\ pc = "idle"
    /\ why = "none"
    /\ exitCode = -1
    /\ zk = "unset"
    /\ args = NoArgs
    /\ cwd = StartDir
    /\ lines = <<>>
    /\ idx = 0
    /\ stack = <<>>
    /\ out = <<>>
    /\ swallowed = FALSE
    /\ reported = FALSE
    /\ calls = {}
    /\ rejected = {}
    /\ snap = data
    /\ ext0 = 0
    /\ ret = <<>>
    /\ last = <<>>

\* ------------------------------------------------------------------ exits

Finish(p, code, w, z) ==
    /\ pc' = p
    /\ exitCode' = code
    /\ why' = w
    /\ zk' = z

\* tear_down without the test 'zk' in globals(): reading zk.connected when no
\* client was ever created raises NameError.
tear_down_no_globals_test(code, w) ==
    IF zk = "unset"
    THEN Finish("crashed", 1, "NameError", zk)
    ELSE Finish("exited", code, w, IF zk = "connected" THEN "closed" ELSE zk)

\* tear_down(code): stop and close the client if it exists and is connected,
\* then exit.
tear_down(code, w) ==
    Finish("exited", code, w, IF zk # "unset" /\ zk = "connected" THEN "closed" ELSE zk)

\* exit(code), with no release of the connection.
exit(code, w) == Finish("exited", code, w, zk)

\* An exception nobody catches: traceback, exit status 1.
raise(w) == Finish("crashed", 1, w, zk)

\* ------------------------------------------------------------------ start of a run

\* main dispatches on the first of these names that occurs in args.action.
DispatchOrder == <<"get", "stats", "set", "deploy", "del", "list", "tree", "status">>

ActionChars ==
    [ get    |-> <<"g", "e", "t">>,
      stats  |-> <<"s", "t", "a", "t", "s">>,
      set    |-> <<"s", "e", "t">>,
      deploy |-> <<"d", "e", "p", "l", "o", "y">>,
      del    |-> <<"d", "e", "l">>,
      list   |-> <<"l", "i", "s", "t">>,
      tree   |-> <<"t", "r", "e", "e">>,
      status |-> <<"s", "t", "a", "t", "u", "s">> ]

\* The command main runs for action a.
Dispatch(a) ==
    LET hit(k) == Contains(ActionChars[DispatchOrder[k]], ActionChars[a])
        k0 == CHOOSE k \in 1..Len(DispatchOrder) : hit(k) /\ \A j \in 1..(k - 1) : ~hit(j)
    IN  DispatchOrder[k0]

Running(cmd) == pc = "dispatch" /\ Dispatch(args.action) = cmd

\* The run that has just ended was a deploy that read its mapping and met no
\* signal, no rejection by the service and no other client.
CleanDeploy ==
    /\ args.action = "deploy"
    /\ lines # <<>>
    /\ pc \in Stopped
    /\ why # "TypeError"
    /\ rejected = {}
    /\ ext = ext0

\* parse_args, then the installation of the signal handlers.  argparse runs
\* check_json on --values and check_file on --input, whatever the action.
Launch(c) ==
    /\ pc \in Stopped
    /\ runs < MaxRuns
    /\ runs' = runs + 1
    /\ snap' = data
    /\ ext0' = ext
    /\ ret' = <<>>
    /\ last' = IF CleanDeploy /\ c.action = "deploy" THEN args.input ELSE <<>>
    /\ lines' = <<>>
    /\ idx' = 0
    /\ stack' = <<>>
    /\ out' = <<>>
    /\ swallowed' = FALSE
    /\ calls' = {}
    /\ rejected' = {}
    /\ UNCHANGED env
    /\ \/ /\ c.values # None /\ check_json_raises(c.values)
          /\ args' = NoArgs
          /\ cwd' = StartDir
          /\ reported' = TRUE
          /\ Finish("exited", 2, "argparse", "unset")
       \/ /\ c.input # <<>> /\ check_file_fails(StartDir, c.input)
          /\ args' = NoArgs
          /\ cwd' = StartDir
          /\ reported' = TRUE
          /\ Finish("exited", 1, "unreadable_input", "unset")
       \/ /\ ~(c.values # None /\ check_json_raises(c.values))
          /\ ~(c.input # <<>> /\ check_file_fails(StartDir, c.input))
          /\ args' = [action |-> c.action,
                      znode |-> c.znode,
                      values |-> IF c.values = None THEN None ELSE check_json(c.values),
                      input |-> IF c.input = <<>> THEN <<>> ELSE basename(c.input),
                      value |-> None]
          /\ cwd' = IF c.input = <<>> THEN StartDir ELSE check_file_chdir(StartDir, c.input)
          /\ reported' = FALSE
          /\ Finish("set_up", -1, "none", "unset")

\* set_up: the client is created, then started; start raises on a timeout.
SetUp ==
    /\ pc = "set_up"
    /\ \E started \in BOOLEAN :
          IF started
          THEN Finish("dispatch", -1, "none", "connected")
          ELSE Finish("crashed", 1, "timeout", "created")
    /\ UNCHANGED << env, runs, args, cwd, deploy_locals, tree_locals, reported,
                    calls, snap, ext0, ret, last >>

\* tear_down has one parameter; a signal handler is called with the signal
\* number and the interrupted frame.
TearDownParams == 1
HandlerCallArgs == 2

\* SIGINT or SIGTERM once the handlers are installed: Python calls
\* tear_down(signum, frame).
Signal(signum) ==
    /\ pc \notin Stopped
    /\ IF HandlerCallArgs = TearDownParams
       THEN tear_down(signum, "signal")
       ELSE raise("TypeError")
    /\ UNCHANGED << env, runs, args, cwd, deploy_locals, tree_locals, reported,
                    calls, snap, ext0, ret, last >>

\* Another client of the service deletes a node that has no children.
ExternalDelete(q) ==
    /\ ext < MaxExternal
    /\ q # <<>>
    /\ data[q] # NoNode
    /\ \A r \in NodePaths : IsPrefix(q, r) /\ r # q => data[r] = NoNode
    /\ data' = [data EXCEPT ![q] = NoNode]
    /\ ext' = ext + 1
    /\ UNCHANGED << order, runs, pc, why, exitCode, zk, args, cwd, deploy_locals,
                    tree_locals, reported, calls, snap, ext0, ret, last >>

\* ------------------------------------------------------------------ get, stats, list, del, status

\* check_znode_exists asking the service with ensure_path: a missing node is
\* created and then found.
CheckZnodeExistsEnsuring ==
    /\ pc = "dispatch"
    /\ Dispatch(args.action) \in {"get", "stats", "del", "list"}
    /\ UNCHANGED << order, ext, runs, args, cwd, deploy_locals, tree_locals,
                    snap, ext0, ret, last >>
    /\ IF args.znode = <<>>
       THEN reported' = TRUE /\ tear_down(1, "usage") /\ UNCHANGED << data, calls >>
       ELSE /\ reported' = reported
            /\ data' = zk_ensure_path(data, args.znode)
            /\ calls' = IF zk_exists(data, args.znode) THEN calls
                        ELSE calls \cup {[op |-> "create", path |-> Components(args.znode)]}
            /\ Finish("op", -1, "none", zk)

\* check_znode_exists, the first statement of get, stats, del and list.
CheckZnodeExists ==
    /\ pc = "dispatch"
    /\ Dispatch(args.action) \in {"get", "stats", "del", "list"}
    /\ IF args.znode = <<>>
       THEN reported' = TRUE /\ tear_down(1, "usage")
       ELSE IF ~zk_exists(data, args.znode)
            THEN reported' = TRUE /\ tear_down(1, "no_such_znode")
            ELSE reported' = reported /\ Finish("op", -1, "none", zk)
    /\ UNCHANGED << env, runs, args, cwd, deploy_locals, tree_locals, calls,
                    snap, ext0, ret, last >>

\* cmd_get after the check: zk.get raises NoNodeError if the node is gone.
CmdGet ==
    /\ pc = "op"
    /\ Dispatch(args.action) = "get"
    /\ IF zk_exists(data, args.znode)
       THEN tear_down(0, "done")
       ELSE raise("NoNodeError")
    /\ UNCHANGED << env, runs, args, cwd, deploy_locals, tree_locals, reported,
                    calls, snap, ext0, ret, last >>

\* cmd_stats after the check: zk.get(...)[1] is the stat of the node, a named
\* tuple, which has no decode method.
CmdStats ==
    /\ pc = "op"
    /\ Dispatch(args.action) = "stats"
    /\ IF zk_exists(data, args.znode)
       THEN raise("AttributeError")
       ELSE raise("NoNodeError")
    /\ UNCHANGED << env, runs, args, cwd, deploy_locals, tree_locals, reported,
                    calls, snap, ext0, ret, last >>

\* cmd_list after the check.
CmdList ==
    /\ pc = "op"
    /\ Dispatch(args.action) = "list"
    /\ IF zk_exists(data, args.znode)
       THEN tear_down(0, "done")
       ELSE raise("NoNodeError")
    /\ UNCHANGED << env, runs, args, cwd, deploy_locals, tree_locals, reported,
                    calls, snap, ext0, ret, last >>

\* cmd_del without the test for the root.
CmdDelNoGuard ==
    /\ pc = "op"
    /\ Dispatch(args.action) = "del"
    /\ reported' = reported
    /\ calls' = calls \cup {[op |-> "delete", path |-> Components(args.znode)]}
    /\ data' = zk_delete(data, args.znode)
    /\ tear_down(0, "done")
    /\ UNCHANGED << order, ext, runs, args, cwd, deploy_locals, tree_locals,
                    snap, ext0, ret, last >>

\* cmd_del after the check: the root is refused, any other node is deleted
\* with its descendants (a recursive delete of a node that is gone is no error).
CmdDel ==
    /\ pc = "op"
    /\ Dispatch(args.action) = "del"
    /\ IF args.znode = <<"/">>
       THEN /\ reported' = TRUE
            /\ UNCHANGED << data, calls >>
            /\ tear_down(1, "root_refused")
       ELSE /\ reported' = reported
            /\ calls' = calls \cup {[op |-> "delete", path |-> Components(args.znode)]}
            /\ data' = zk_delete(data, args.znode)
            /\ tear_down(0, "done")
    /\ UNCHANGED << order, ext, runs, args, cwd, deploy_locals, tree_locals,
                    snap, ext0, ret, last >>

\* cmd_status: OK when the answer contains imok; exits without tear_down.
CmdStatus ==
    /\ Running("status")
    /\ \E r \in Responses :
          /\ ret' = r
          /\ IF Contains(<<"i", "m", "o", "k">>, r)
             THEN reported' = reported /\ exit(0, "done")
             ELSE reported' = TRUE /\ exit(1, "warn")
    /\ UNCHANGED << env, runs, args, cwd, deploy_locals, tree_locals, calls,
                    snap, ext0, last >>

\* ------------------------------------------------------------------ set

\* Where the service may reject a create_and_set: the exists call, the
\* ensure_path call (issued only for a missing node) or the set call.
Outcomes == {"ok", "exists_fails", "create_fails", "set_fails"}

OutcomePossible(d, znode, outcome) ==
    outcome = "create_fails" => ~zk_exists(d, znode)

\* create_and_set on args.znode and args.values: the namespace afterwards, the
\* calls issued, and whether a ZookeeperError was caught and printed.
create_and_set(d, znode, values, outcome) ==
    LET n == Components(znode)
        missing == ~zk_exists(d, znode)
        created == missing /\ outcome \in {"ok", "set_fails"}
        d1 == IF created THEN zk_ensure_path(d, znode) ELSE d
    IN  [ data  |-> IF outcome = "ok" THEN zk_set(d1, znode, values) ELSE d1,
          calls |-> (IF missing /\ outcome # "exists_fails"
                     THEN {[op |-> "create", path |-> n]} ELSE {})
                    \cup
                    (IF outcome \in {"ok", "set_fails"}
                     THEN {[op |-> "set", path |-> n]} ELSE {}),
          error |-> outcome # "ok" ]

\* The text of the file open(f) gives in directory dir.
FileText(dir, f) == Files[Resolve(dir, f)]

\* cmd_set.  The text read from --input is stored in args.value;
\* create_and_set writes args.values.
CmdSet ==
    /\ Running("set")
    /\ UNCHANGED << order, ext, runs, cwd, deploy_locals, tree_locals, snap, ext0, ret, last >>
    /\ IF args.input = <<>> /\ args.values = None
       THEN /\ reported' = TRUE
            /\ UNCHANGED << data, calls, args >>
            /\ tear_down(1, "usage")
       ELSE IF args.znode = <<>>
       THEN /\ reported' = TRUE
            /\ UNCHANGED << data, calls, args >>
            /\ tear_down(1, "usage")
       ELSE IF args.input # <<>> /\ read_json_raises(FileText(cwd, args.input).json)
       THEN /\ UNCHANGED << data, calls, args, reported >>
            /\ raise("ValueError_json")
       ELSE \E outcome \in Outcomes :
            /\ OutcomePossible(data, args.znode, outcome)
            /\ LET r == create_and_set(data, args.znode, args.values, outcome)
               IN  /\ data' = r.data
                   /\ calls' = calls \cup r.calls
                   /\ reported' = r.error
            /\ args' = IF args.input # <<>>
                       THEN [args EXCEPT !.value =
                                read_json_from_file(FileText(cwd, args.input).json)]
                       ELSE args
            /\ tear_down(0, "done")

\* ------------------------------------------------------------------ deploy

\* cmd_deploy without its first loop: the second loop starts at once.
DeployOpenNoValidation ==
    /\ Running("deploy")
    /\ UNCHANGED << env, runs, args, cwd, rejected, tree_locals, calls, snap, ext0, ret, last >>
    /\ IF args.input = <<>>
       THEN /\ reported' = TRUE
            /\ UNCHANGED << lines, idx >>
            /\ tear_down(1, "usage")
       ELSE /\ reported' = reported
            /\ lines' = FileText(cwd, args.input).lines
            /\ idx' = 1
            /\ Finish("deploy2", -1, "none", zk)

\* cmd_deploy up to the first loop: the option is checked, the mapping file
\* is opened and its lines are read.
DeployOpen ==
    /\ Running("deploy")
    /\ UNCHANGED << env, runs, args, cwd, rejected, tree_locals, calls, snap, ext0, ret, last >>
    /\ IF args.input = <<>>
       THEN /\ reported' = TRUE
            /\ UNCHANGED << lines, idx >>
            /\ tear_down(1, "usage")
       ELSE /\ reported' = reported
            /\ lines' = FileText(cwd, args.input).lines
            /\ idx' = 1
            /\ Finish("deploy1", -1, "none", zk)

\* One turn of the first loop with a check_file that prints its message and
\* returns: the loop goes on to the next line.
DeployValidateNoExit ==
    /\ pc = "deploy1"
    /\ idx <= Len(lines)
    /\ UNCHANGED << env, runs, args, lines, rejected, tree_locals, calls, snap, ext0, ret, last >>
    /\ LET l == lines[idx]
           kv == split_first(rstrip(l), ":")
       IN  IF startswith(l, "#")
           THEN /\ idx' = idx + 1
                /\ UNCHANGED << pc, why, exitCode, zk, cwd, reported >>
           ELSE IF Len(kv) # 2
           THEN /\ UNCHANGED << idx, cwd, reported >>
                /\ raise("ValueError_unpack")
           ELSE IF check_file_fails(cwd, kv[2])
           THEN /\ reported' = TRUE
                /\ idx' = idx + 1
                /\ UNCHANGED << pc, why, exitCode, zk, cwd >>
           ELSE /\ cwd' = check_file_chdir(cwd, kv[2])
                /\ idx' = idx + 1
                /\ UNCHANGED << pc, why, exitCode, zk, reported >>

\* One turn of the first loop: check_file on the source of a non-comment line.
DeployValidate ==
    /\ pc = "deploy1"
    /\ idx <= Len(lines)
    /\ UNCHANGED << env, runs, args, lines, rejected, tree_locals, calls, snap, ext0, ret, last >>
    /\ LET l == lines[idx]
           kv == split_first(rstrip(l), ":")
       IN  IF startswith(l, "#")
           THEN /\ idx' = idx + 1
                /\ UNCHANGED << pc, why, exitCode, zk, cwd, reported >>
           ELSE IF Len(kv) # 2
           THEN /\ UNCHANGED << idx, cwd, reported >>
                /\ raise("ValueError_unpack")
           ELSE IF check_file_fails(cwd, kv[2])
           THEN /\ reported' = TRUE
                /\ UNCHANGED << idx, cwd >>
                /\ exit(1, "unreadable_source")
           ELSE /\ cwd' = check_file_chdir(cwd, kv[2])
                /\ idx' = idx + 1
                /\ UNCHANGED << pc, why, exitCode, zk, reported >>

\* f.seek(0): the second loop starts at the first line.
DeployRewind ==
    /\ pc = "deploy1"
    /\ idx > Len(lines)
    /\ idx' = 1
    /\ Finish("deploy2", -1, "none", zk)
    /\ UNCHANGED << env, runs, args, cwd, lines, rejected, tree_locals, reported,
                    calls, snap, ext0, ret, last >>

\* One turn of the second loop: the source is opened and read, args.values
\* and args.znode are set, create_and_set runs.
DeployCommit ==
    /\ pc = "deploy2"
    /\ idx <= Len(lines)
    /\ UNCHANGED << order, ext, runs, cwd, lines, tree_locals, snap, ext0, ret, last >>
    /\ LET l == lines[idx]
           kv == split_first(rstrip(l), ":")
       IN  IF startswith(l, "#")
           THEN /\ idx' = idx + 1
                /\ UNCHANGED << pc, why, exitCode, zk, data, args, reported, calls,
                                rejected >>
           ELSE IF Len(kv) # 2
           THEN /\ UNCHANGED << idx, data, args, reported, calls, rejected >>
                /\ raise("ValueError_unpack")
           ELSE IF ~access(cwd, kv[2])
           THEN /\ UNCHANGED << idx, data, args, reported, calls, rejected >>
                /\ raise("IOError")
           ELSE IF read_json_raises(FileText(cwd, kv[2]).json)
           THEN /\ UNCHANGED << idx, data, args, reported, calls, rejected >>
                /\ raise("ValueError_json")
           ELSE \E outcome \in Outcomes :
                /\ OutcomePossible(data, kv[1], outcome)
                /\ LET v == read_json_from_file(FileText(cwd, kv[2]).json)
                       r == create_and_set(data, kv[1], v, outcome)
                   IN  /\ args' = [args EXCEPT !.values = v, !.znode = kv[1]]
                       /\ data' = r.data
                       /\ calls' = calls \cup r.calls
                       /\ reported' = (reported \/ r.error)
                       /\ rejected' = IF r.error
                                      THEN rejected \cup {[line |-> idx, op |-> outcome]}
                                      ELSE rejected
                /\ idx' = idx + 1
                /\ UNCHANGED << pc, why, exitCode, zk >>

\* The second loop is over: main calls tear_down(0).
DeployDone ==
    /\ pc = "deploy2"
    /\ idx > Len(lines)
    /\ tear_down(0, "done")
    /\ UNCHANGED << env, runs, args, cwd, deploy_locals, tree_locals, reported,
                    calls, snap, ext0, ret, last >>

\* ------------------------------------------------------------------ tree

RECURSIVE Repeat(_, _)
Repeat(s, n) == IF n <= 0 THEN <<>> ELSE s \o Repeat(s, n - 1)

\* show_tree_node with its first test written level >= 1.
show_tree_node_from_one(c, level) ==
    IF level >= 1
    THEN Repeat(<<" ", " ", " ", " ">>, level) \o <<"L">> \o Repeat(<<"-">>, level)
         \o <<" ">> \o basename(c)
    ELSE <<".">> \o <<" ">> \o basename(c)

\* ZNode.show_tree_node: the line printed for path c at depth level.
show_tree_node(c, level) ==
    IF level > 1
    THEN Repeat(<<" ", " ", " ", " ">>, level) \o <<"L">> \o Repeat(<<"-">>, level)
         \o <<" ">> \o basename(c)
    ELSE IF level = 1
    THEN <<" ", " ">> \o <<"L", "-", "-", "-">> \o <<" ">> \o basename(c)
    ELSE <<".">> \o <<" ">> \o basename(c)

\* cmd_tree up to the first ZNode construction.
CmdTree ==
    /\ Running("tree")
    /\ args' = IF args.znode = <<>> THEN [args EXCEPT !.znode = <<"/">>] ELSE args
    /\ stack' = << [path |-> args'.znode, level |-> 0] >>
    /\ Finish("tree", -1, "none", zk)
    /\ UNCHANGED << env, runs, cwd, deploy_locals, out, swallowed, reported, calls, snap,
                    ext0, ret, last >>

\* ZNode.__init__ without the except clause: the NoNodeError goes up.
ZNode_children_raising(d, ord, path) ==
    IF zk_exists(d, path)
    THEN [raised |-> FALSE, children |-> zk_get_children(d, ord, path)]
    ELSE [raised |-> TRUE, children |-> <<>>]

\* The try block of ZNode.__init__ for a path: the children to construct,
\* none when get_children raises NoNodeError, which the except clause takes.
ZNode_children(d, ord, path) ==
    IF zk_exists(d, path)
    THEN [raised |-> FALSE, children |-> zk_get_children(d, ord, path)]
    ELSE [raised |-> FALSE, children |-> <<>>]

\* The children constructed last first.
ZNode_frames_reversed(path, level, children) ==
    [k \in 1..Len(children) |->
        [path |-> path \o <<"/">> \o children[Len(children) + 1 - k],
         level |-> level + 1]]

\* The constructions ZNode.__init__ makes for the children, in their order.
ZNode_frames(path, level, children) ==
    [k \in 1..Len(children) |->
        [path |-> path \o <<"/">> \o children[k], level |-> level + 1]]

\* One ZNode construction: the line of the node is printed, its children are
\* listed and their constructions run before anything else.
TreeStep ==
    /\ pc = "tree"
    /\ stack # <<>>
    /\ LET f == Head(stack)
           r == ZNode_children(data, order, f.path)
       IN  /\ out' = Append(out, [path |-> f.path, level |-> f.level,
                                  text |-> show_tree_node(f.path, f.level)])
           /\ swallowed' = (swallowed \/ ~zk_exists(data, f.path))
           /\ IF r.raised
              THEN UNCHANGED stack /\ raise("NoNodeError")
              ELSE /\ stack' = ZNode_frames(f.path, f.level, r.children) \o Tail(stack)
                   /\ UNCHANGED << pc, why, exitCode, zk >>
    /\ UNCHANGED << env, runs, args, cwd, deploy_locals, reported, calls, snap, ext0, ret, last >>

\* The first construction has returned: main calls tear_down(0).
TreeDone ==
    /\ pc = "tree"
    /\ stack = <<>>
    /\ tear_down(0, "done")
    /\ UNCHANGED << env, runs, args, cwd, deploy_locals, tree_locals, reported,
                    calls, snap, ext0, ret, last >>

\* ------------------------------------------------------------------ specification

Signals == {2, 15}

Next ==
    \/ \E c \in CommandLines : Launch(c)
    \/ SetUp
    \/ \E s \in Signals : Signal(s)
    \/ \E q \in NodePaths : ExternalDelete(q)
    \/ CheckZnodeExists
    \/ CmdGet
    \/ CmdStats
    \/ CmdList
    \/ CmdDel
    \/ CmdStatus
    \/ CmdSet
    \/ DeployOpen
    \/ DeployValidate
    \/ DeployRewind
    \/ DeployCommit
    \/ DeployDone
    \/ CmdTree
    \/ TreeStep
    \/ TreeDone

Spec == Init /\ [][Next]_vars

\* ------------------------------------------------------------------ tear_down on its own

\* The exit codes the program passes to tear_down.
ExitCodes == {0, 1}

\* A process about to call tear_down: its arguments parsed or not, and the
\* global zk never assigned, assigned a client that is not connected, or
\* assigned a connected client.
TearDownInit ==
    /\ data \in {FullTree, OnlyRoot}
    /\ order \in ChildOrders
    /\ runs = 1
    /\ ext = 0
    /\ pc = "tear_down"
    /\ why = "none"
    /\ exitCode = -1
    /\ zk \in {"unset", "created", "connected"}
    /\ args \in {NoArgs} \cup {[NoArgs EXCEPT !.action = a] : a \in DOMAIN ActionChars}
    /\ cwd = StartDir
    /\ lines = <<>>
    /\ idx = 0
    /\ stack = <<>>
    /\ out = <<>>
    /\ swallowed = FALSE
    /\ reported \in BOOLEAN
    /\ calls = {}
    /\ rejected = {}
    /\ snap = data
    /\ ext0 = 0
    /\ ret = <<>>
    /\ last = <<>>

\* tear_down(code), called where the program calls it: from check_option,
\* check_znode_exists, cmd_del or the end of main.
TearDownCall(code) ==
    /\ pc = "tear_down"
    /\ tear_down(code, "released")
    /\ UNCHANGED << env, runs, args, cwd, deploy_locals, tree_locals, reported,
                    calls, snap, ext0, ret, last >>

TearDownNext == \E code \in ExitCodes : TearDownCall(code)

TearDownSpec == TearDownInit /\ [][TearDownNext]_vars

\* ------------------------------------------------------------------ deploy: what a mapping asks for

IsEntry(l) == ~startswith(l, "#")
EntryKey(l) == split_first(rstrip(l), ":")[1]
EntrySource(l) == split_first(rstrip(l), ":")[2]
WellFormed(ls) == \A k \in 1..Len(ls) : IsEntry(ls[k]) => Len(split_first(rstrip(ls[k]), ":")) = 2

\* The first loop of cmd_deploy, from line k in directory dir, meets a source
\* that check_file refuses.
RECURSIVE PhaseOneFails(_, _, _)
PhaseOneFails(ls, dir, k) ==
    IF k > Len(ls) THEN FALSE
    ELSE IF ~IsEntry(ls[k]) THEN PhaseOneFails(ls, dir, k + 1)
    ELSE IF Len(split_first(rstrip(ls[k]), ":")) # 2 THEN FALSE
    ELSE IF check_file_fails(dir, EntrySource(ls[k])) THEN TRUE
    ELSE PhaseOneFails(ls, check_file_chdir(dir, EntrySource(ls[k])), k + 1)

\* The run is a deploy that has read its mapping file.
InDeploy == args.action = "deploy" /\ lines # <<>>

\* No other client has touched the namespace since the run started.
Undisturbed == ext = ext0

\* ------------------------------------------------------------------ C1

\* C1: a deploy whose first loop meets a source that check_file refuses, at
\* whatever line of the mapping, issues no create and no set call: the
\* namespace is as it was when the run started.
C1_ValidationBlocksMutation ==
    (InDeploy /\ PhaseOneFails(lines, InputDir, 1))
        => /\ calls = {}
           /\ Undisturbed => data = snap

\* A deploy has stopped on a refused source that is not the first entry.
C1_Witness ==
    /\ InDeploy
    /\ PhaseOneFails(lines, InputDir, 1)
    /\ pc = "exited"
    /\ why = "unreadable_source"
    /\ idx = 2
    /\ calls = {}

\* ------------------------------------------------------------------ C7

\* C7: a del of the root path is refused without a delete call, no run ever
\* issues a delete of the root, and the root exists in every state.
C7_RootNeverDeleted ==
    /\ data[<<>>] # NoNode
    /\ [op |-> "delete", path |-> <<>>] \notin calls
    /\ (args.action = "del" /\ args.znode = P_root /\ pc \in Stopped) => calls = {}

\* A del of the root has been refused.
C7_Witness ==
    /\ args.action = "del"
    /\ args.znode = P_root
    /\ pc = "exited"
    /\ why = "root_refused"
    /\ exitCode = 1

\* ------------------------------------------------------------------ C8, C9

\* The nodes at and below n in namespace d, depth first, a node before its
\* children, the children in the order ord, each with its distance from the
\* start plus depth.
RECURSIVE PreOrder(_, _, _, _)
PreOrder(d, ord, n, depth) ==
    LET kids == SelectSeq(ord, LAMBDA c : /\ Append(n, c) \in NodePaths
                                          /\ d[Append(n, c)] # NoNode)
        RECURSIVE Below(_)
        Below(k) == IF k > Len(kids) THEN <<>>
                    ELSE PreOrder(d, ord, Append(n, kids[k]), depth + 1) \o Below(k + 1)
    IN  << [node |-> n, depth |-> depth] >> \o Below(1)

\* The node and the depth of each line printed so far.
Visited == [k \in 1..Len(out) |-> [node |-> Components(out[k].path), depth |-> out[k].level]]

NodesOf(seq) == {seq[k].node : k \in 1..Len(seq)}

\* The run is a tree whose render has started and that no signal has ended.
InRender ==
    /\ args.action = "tree"
    /\ pc = "tree" \/ (pc \in Stopped /\ why \notin {"TypeError", "timeout"})

\* C8: while the namespace does not change, the lines printed by a tree
\* started at p are a prefix of the depth-first pre-order listing of p and its
\* descendants (children in the order of the service, depth the distance
\* from p); constructions remain to run exactly while the listing is not
\* complete, and the run ends with the complete listing and exit code 0.
C8_TreeIsPreOrder ==
    (InRender /\ Undisturbed) =>
        LET ref == PreOrder(data, order, Components(args.znode), 0)
        IN  /\ Len(out) <= Len(ref)
            /\ SubSeq(ref, 1, Len(out)) = Visited
            /\ (stack = <<>>) <=> (Visited = ref)
            /\ pc \in Stopped => (why = "done" /\ exitCode = 0 /\ Visited = ref)

\* A render of the whole tree has ended: five lines, the deepest at depth 3,
\* the service listing b before a.
C8_Witness ==
    /\ InRender
    /\ Undisturbed
    /\ pc = "exited"
    /\ why = "done"
    /\ Len(out) = 5
    /\ out[5].level = 3
    /\ Components(out[2].path) = << D("b") >>

\* C9: a tree never ends on a NoNodeError and reports no error, whatever
\* other clients delete meanwhile; it ends normally with exit code 0, having
\* printed one line for every node under the start that still exists, and
\* lines only for nodes that existed when the run started.
C9_DeletionDuringRender ==
    args.action = "tree" =>
        /\ why # "NoNodeError"
        /\ ~reported
        /\ (InRender /\ pc \in Stopped) =>
              /\ why = "done"
              /\ exitCode = 0
              /\ stack = <<>>
              /\ NodesOf(PreOrder(data, order, Components(args.znode), 0))
                    \subseteq NodesOf(Visited)
              /\ NodesOf(Visited)
                    \subseteq NodesOf(PreOrder(snap, order, Components(args.znode), 0))
              /\ Cardinality(NodesOf(Visited)) = Len(out)

\* A render has ended normally after the except clause took a NoNodeError for
\* a listed child, and lines were printed after the line of that child.
C9_Witness ==
    /\ InRender
    /\ pc = "exited"
    /\ why = "done"
    /\ exitCode = 0
    /\ swallowed
    /\ ~Undisturbed
    /\ \E k \in 1..(Len(out) - 1) :
          /\ out[k].level >= 1
          /\ ~zk_exists(data, out[k].path)

\* ------------------------------------------------------------------ C2, C3

Entries(ls) == {k \in 1..Len(ls) : IsEntry(ls[k])}

\* The file an entry names, seen from the directory of the mapping file.
SourcePath(l) == Resolve(InputDir, EntrySource(l))

SourceReadable(l) == SourcePath(l) \in DOMAIN Files
SourceIsJson(l) == SourceReadable(l) /\ ~read_json_raises(Files[SourcePath(l)].json)

\* The target of the entry exists and holds the canonical bytes of its source.
Applied(l) ==
    /\ zk_exists(data, EntryKey(l))
    /\ data[Components(EntryKey(l))] = read_json_from_file(Files[SourcePath(l)].json)

\* A deploy has ended, with no signal and no other client in its way.
DeployEnded ==
    /\ InDeploy
    /\ pc \in Stopped
    /\ why # "TypeError"
    /\ Undisturbed

\* C2: when a deploy whose sources are all valid ends and the service has
\* rejected the create or the set of one entry, the error was reported and
\* every other entry is applied: its target exists and holds the canonical
\* payload of its source.
C2_OtherEntriesApplied ==
    ( /\ DeployEnded
      /\ WellFormed(lines)
      /\ \A k \in Entries(lines) : SourceIsJson(lines[k])
      /\ Cardinality(rejected) = 1
      /\ \A r \in rejected : r.op \in {"create_fails", "set_fails"} )
        => /\ reported
           /\ \A k \in Entries(lines) :
                 (\A r \in rejected : r.line # k) => Applied(lines[k])

\* C3: when a deploy ends whose first loop passed and in which the payload
\* of some entry is not JSON, the run has gone through the whole mapping and
\* every later entry with a valid payload is applied.
C3_BadPayloadSkipped ==
    ( /\ DeployEnded
      /\ WellFormed(lines)
      /\ ~PhaseOneFails(lines, InputDir, 1)
      /\ rejected = {} )
        => \A b \in Entries(lines) :
              (SourceReadable(lines[b]) /\ ~SourceIsJson(lines[b]))
                  => /\ why = "done"
                     /\ \A k \in Entries(lines) :
                           (k > b /\ SourceIsJson(lines[k])) => Applied(lines[k])

\* ------------------------------------------------------------------ C4, C5, C6

\* C4: a run that connected and has ended, on whatever path other than a
\* signal, has stopped and closed its connection.
C4_AlwaysReleased ==
    (pc \in Stopped /\ why # "TypeError") => zk # "connected"

\* C5: a SIGINT or SIGTERM delivered once the handlers are installed ends
\* the process, and a connection that was open is stopped and closed.
C5_SignalReleases ==
    [][(\E sig \in Signals : Signal(sig)) => (pc' \in Stopped /\ zk' # "connected")]_vars

\* C6: a run that got past its argument parser exits with code 0 only if no
\* error was reported, and with code 1 whenever one was.
C6_ExitCodeTellsErrors ==
    (pc \in Stopped /\ zk # "unset") =>
        /\ exitCode = 0 => ~reported
        /\ reported => exitCode = 1

\* ------------------------------------------------------------------ C10

\* The JSON text a set was given: the contents of --input when given, else
\* the --values argument.
SetSource ==
    IF args.input # <<>>
    THEN check_json(Files[Resolve(InputDir, args.input)].json)
    ELSE args.values

\* C10: after a set that met no service error, the target exists and its
\* payload is the canonical JSON of the value source it was given.
C10_SetStoresItsSource ==
    (args.action = "set" /\ pc = "exited" /\ why = "done" /\ ~reported /\ Undisturbed)
        => /\ zk_exists(data, args.znode)
           /\ encode(data[Components(args.znode)]) = encode(SetSource)

\* ------------------------------------------------------------------ C11

\* C11: a status run that got an answer to its probe prints OK and exits
\* with code 0 exactly when the answer is the four characters imok; any
\* other answer, also one that holds imok within more text, gives the
\* warning and exit code 1.
C11_StatusNeedsExactAnswer ==
    (args.action = "status" /\ pc = "exited" /\ ret # <<>>) =>
        /\ (exitCode = 0 /\ ~reported) <=> (ret = <<"i", "m", "o", "k">>)
        /\ (ret # <<"i", "m", "o", "k">>) => (reported /\ exitCode = 1)

\* ------------------------------------------------------------------ C12

\* C12: when a deploy ends that met no service error and no other client,
\* and the run before it was a deploy of the same mapping that ended the
\* same way with nothing written in between, every target of the mapping
\* holds the bytes it held after the first run; and every payload stored is
\* canonical: formatting it again gives the same bytes.
C12_DeployTwiceSameBytes ==
    /\ (CleanDeploy /\ last = args.input) =>
          \A k \in Entries(lines) :
             data[Components(EntryKey(lines[k]))] = snap[Components(EntryKey(lines[k]))]
    /\ \A q \in NodePaths :
          data[q].valid => encode(dumps(loads(data[q]))) = encode(data[q])

\* The second of two deploys of the mapping m/1 has ended normally, and its
\* two targets hold the payloads of their sources.
C12_Witness ==
    /\ CleanDeploy
    /\ last = args.input
    /\ args.input = <<"1">>
    /\ runs = 2
    /\ pc = "exited"
    /\ why = "done"
    /\ \A k \in Entries(lines) : Applied(lines[k])
    /\ data[<< D("a") >>].keys = <<1, 2>>

\* ------------------------------------------------------------------ C13

\* C13: while a deploy goes through its two loops, the directory against
\* which a relative source is resolved is the directory of the mapping file;
\* the check of one entry leaves it as it was for the entries after it.
C13_SourcesResolvedFromMappingDir ==
    (InDeploy /\ pc \in {"deploy1", "deploy2"}) => cwd = InputDir

\* ------------------------------------------------------------------ C14

\* The line at which the first loop of cmd_deploy, from line k in directory
\* dir, meets a source that check_file refuses; 0 when it meets none.
RECURSIVE FirstRefused(_, _, _)
FirstRefused(ls, dir, k) ==
    IF k > Len(ls) THEN 0
    ELSE IF ~IsEntry(ls[k]) THEN FirstRefused(ls, dir, k + 1)
    ELSE IF Len(split_first(rstrip(ls[k]), ":")) # 2 THEN 0
    ELSE IF check_file_fails(dir, EntrySource(ls[k])) THEN k
    ELSE FirstRefused(ls, check_file_chdir(dir, EntrySource(ls[k])), k + 1)

\* C14 as stated: when a deploy aborts for an unreadable source, the source
\* of every non-comment entry of the mapping has been checked, the entries
\* after the unreadable one included.
C14_EveryEntryChecked ==
    (InDeploy /\ why = "unreadable_source") =>
        \A k \in Entries(lines) : k <= idx

\* C14, amended: the first loop checks the sources in file order and aborts
\* at the first one that is refused, wherever in the mapping it is; the
\* entries before it have been checked and accepted, no create and no set
\* has been issued, and the second loop starts only when every entry has
\* been checked and accepted.
C14_AbortAtFirstUnreadable ==
    InDeploy =>
        /\ why = "unreadable_source" =>
              /\ pc = "exited"
              /\ exitCode = 1
              /\ IsEntry(lines[idx])
              /\ FirstRefused(lines, InputDir, 1) = idx
              /\ calls = {}
        /\ pc = "deploy1" =>
              \/ FirstRefused(lines, InputDir, 1) = 0
              \/ FirstRefused(lines, InputDir, 1) >= idx
        /\ pc = "deploy2" => FirstRefused(lines, InputDir, 1) = 0

\* A deploy has aborted at its first entry while a later entry, whose source
\* is readable, was never checked.
C14_Witness ==
    /\ InDeploy
    /\ pc = "exited"
    /\ why = "unreadable_source"
    /\ idx = 1
    /\ 2 \in Entries(lines)
    /\ SourceReadable(lines[2])
    /\ cwd = InputDir

\* ------------------------------------------------------------------ C15

\* The paths for which the run has issued a set call.
SetPaths == {c.path : c \in {x \in calls : x.op = "set"}}

\* The targets of the non-comment lines among the first n lines of ls, each
\* line cut at its first colon.
TargetsUpTo(ls, n) == {Components(EntryKey(ls[k])) : k \in {j \in Entries(ls) : j <= n}}

\* C15: a deploy whose sources are all readable JSON goes through its
\* mapping in file order and issues a set for the target of each non-comment
\* line, cut at its first colon, and for nothing else: at every moment of
\* the second loop the sets issued are those of the entries passed, comment
\* lines add none, and the run ends normally with one set per entry.
C15_ExactlyTheEntries ==
    ( /\ InDeploy
      /\ why # "TypeError"
      /\ WellFormed(lines)
      /\ \A k \in Entries(lines) : SourceIsJson(lines[k])
      /\ \A r \in rejected : r.op = "set_fails" )
        => /\ pc = "deploy1" => calls = {}
           /\ pc = "deploy2" => SetPaths = TargetsUpTo(lines, idx - 1)
           /\ pc \in Stopped => (why = "done" /\ SetPaths = TargetsUpTo(lines, Len(lines)))

\* ------------------------------------------------------------------ C16

\* The step is the existence check or the client operation of a get, a list
\* or a del whose target is given and is absent at that moment.
OnAbsentTarget ==
    /\ args.action \in {"get", "list", "del"}
    /\ args.znode # <<>>
    /\ args.znode # P_root
    /\ ~zk_exists(data, args.znode)
    /\ CheckZnodeExists \/ CmdGet \/ CmdList \/ CmdDel

\* C16: a get, list or del whose target is absent when the tool asks the
\* service for it, at the existence check or, after a deletion by another
\* client, at the operation itself, ends there with a non-zero exit code,
\* the absence having been shown to the operator by the message of the tool
\* or by the NoNodeError of the client.
C16_AbsentTargetIsFatal ==
    [][OnAbsentTarget =>
          /\ pc' \in Stopped
          /\ exitCode' # 0
          /\ reported' \/ why' = "NoNodeError"]_vars

\* ------------------------------------------------------------------ C17

\* The last segment of a path, empty for the root.
LastSegment(p) ==
    IF Components(p) = <<>> THEN <<>> ELSE Components(p)[Len(Components(p))]

Indent(d) == Repeat(<<" ", " ", " ", " ">>, d)

\* The lines for depth 0 and depth 1, the same in the claim and in its
\* amended form: "L" stands for the corner glyph, "-" for the dash glyph.
ShallowLine(d, name) ==
    IF d = 0 THEN <<".", " ">> \o name
    ELSE <<" ", " ", "L", "-", "-", "-", " ">> \o name

\* C17 as stated: a line at depth d >= 2 is four spaces d times, then one
\* glyph, the corner or the dash, d times, then a space and the name.
C17_GlyphRepeated ==
    \A k \in 1..Len(out) :
        LET d == out[k].level
            name == LastSegment(out[k].path)
        IN  IF d <= 1
            THEN out[k].text = ShallowLine(d, name)
            ELSE \E g \in {"L", "-"} :
                    out[k].text = Indent(d) \o Repeat(<<g>>, d) \o <<" ">> \o name

\* C17, amended: every line of a tree render is built from the depth d of
\* its node and the last segment of its path: a dot, a space and the name
\* for d = 0; two spaces, the corner, three dashes, a space and the name for
\* d = 1; for d >= 2 four spaces d times, the corner once, the dash d times,
\* a space and the name.
C17_CornerThenDashes ==
    \A k \in 1..Len(out) :
        LET d == out[k].level
            name == LastSegment(out[k].path)
        IN  IF d <= 1
            THEN out[k].text = ShallowLine(d, name)
            ELSE out[k].text =
                    Indent(d) \o <<"L">> \o Repeat(<<"-">>, d) \o <<" ">> \o name

\* A render of the whole tree has printed lines at the depths 0, 1, 2 and 3.
C17_Witness ==
    /\ args.action = "tree"
    /\ pc = "exited"
    /\ Len(out) = 5
    /\ {out[k].level : k \in 1..Len(out)} = {0, 1, 2, 3}
    /\ out[1].text = <<".", " ">>
    /\ Len(out[5].text) = 18

\* ------------------------------------------------------------------ C18

\* C18: tear_down called with an exit code, whether no client was ever
\* created, the client exists and is not connected, or it is connected,
\* raises nothing and ends the process with that code; the client is
\* stopped and closed exactly when it was connected, and is otherwise left
\* as it was.
C18_TearDownSafe ==
    [][\A code \in ExitCodes :
          TearDownCall(code) =>
              /\ pc' = "exited"
              /\ exitCode' = code
              /\ why' = "released"
              /\ (zk' = "closed") <=> (zk = "connected")
              /\ zk # "connected" => zk' = zk]_vars

\* tear_down(1) has ended a process in which no client was ever created.
C18_Witness ==
    /\ pc = "exited"
    /\ why = "released"
    /\ exitCode = 1
    /\ zk = "unset"

\* ------------------------------------------------------------------ C19

ReadOnlyActions == {"get", "stats", "list", "tree", "status"}

\* C19: a get, stats, list, tree or status run issues no create, set or
\* delete call at any moment and however it ends, and unless another client
\* deleted something meanwhile the namespace holds the nodes and the
\* payloads it held when the run started.
C19_ReadOnlyActions ==
    args.action \in ReadOnlyActions =>
        /\ calls = {}
        /\ Undisturbed => data = snap

\* A get has found its node and ended, in a namespace where an earlier run
\* stored a payload, and the namespace is as it was when the get started.
C19_Witness ==
    /\ args.action = "get"
    /\ pc = "exited"
    /\ why = "done"
    /\ runs = 2
    /\ \E q \in NodePaths : data[q].valid
    /\ data = snap

\* ------------------------------------------------------------------ C20

\* The paths a set or a deploy was given to write: the --znode of a set, the
\* targets of the entries of the mapping of a deploy.
WriteTargets ==
    IF args.action = "set"
    THEN IF args.znode = <<>> THEN {} ELSE {Components(args.znode)}
    ELSE TargetsUpTo(lines, Len(lines))

\* C20: a set or a deploy issues no delete call; and, other clients apart,
\* every node that existed when the run started still exists, those that
\* are not targets hold the payload they held, and every node that did not
\* exist and now does is a target or an ancestor of a target.
C20_OnlyTargetsWritten ==
    args.action \in {"set", "deploy"} =>
        /\ \A c \in calls : c.op # "delete"
        /\ Undisturbed =>
              \A q \in NodePaths :
                 /\ snap[q] # NoNode => data[q] # NoNode
                 /\ (snap[q] # NoNode /\ q \notin WriteTargets) => data[q] = snap[q]
                 /\ (snap[q] = NoNode /\ data[q] # NoNode) =>
                       \E t \in WriteTargets : IsPrefix(q, t)

\* A set of /a/b has ended where /a/b did not exist and /a held a payload
\* stored by an earlier run: the target was created and written, and /a
\* holds the payload it held.
C20_Witness ==
    /\ args.action = "set"
    /\ pc = "exited"
    /\ why = "done"
    /\ Undisturbed
    /\ snap[<< D("a") >>].valid
    /\ snap[<< D("a"), D("b") >>] = NoNode
    /\ data[<< D("a"), D("b") >>].valid
    /\ data[<< D("a") >>] = snap[<< D("a") >>]

====
